---------------------------- MODULE Spec2Model ----------------------------
(***************************************************************************)
(* Smart Data Cleaner (src/datacleaning-app/app.py): one Streamlit script  *)
(* run.  An uploaded file is loaded into a table, scored, described by a   *)
(* remote narrative call, cleaned in six stages, scored again, summarised  *)
(* by a second narrative call and offered as a PDF and a CSV download.     *)
(*                                                                         *)
(* Representation.                                                         *)
(*  - A column name is a sequence of one-character strings, so that        *)
(*    str.strip() is computed and not assumed.                             *)
(*  - A raw CSV field is a string of a small vocabulary; a cell of the     *)
(*    table is a record: missing (NaN), text, or a number.                 *)
(*  - A number is stored as twice its value (n = 2 * value): the median of *)
(*    integers is a multiple of 1/2, so every cell value the script can    *)
(*    produce from integer input is exact.  Quartiles are carried as       *)
(*    4 * quartile and fences as 8 * fence, again exact.                   *)
(*  - The table is positional (names beside rows): pandas allows two       *)
(*    columns with one name, and the script can produce them.              *)
(*  - fillna(..., inplace=True) on df[col] is modelled as updating df      *)
(*    (pandas < 3, without copy-on-write), which the script relies on.     *)
(***************************************************************************)
EXTENDS Integers, Sequences, FiniteSets, TLC

VARIABLES
    uploaded_file,   \* the upload: [present, parseable, header, records]
    pc,              \* position of the script run
    df,              \* the table: [columns, data]
    before_quality,  \* score record, or NotComputed
    after_quality,   \* score record, or NotComputed
    improvement,     \* score record, or NotComputed
    ai_analysis,     \* "none" | "text": result of the pre-clean narrative call
    ai_report,       \* "none" | "text": result of the post-clean narrative call
    narrative_calls, \* number of generate_content calls made
    error,           \* "none" | "LoadError" | "NarrativeUnavailable" | "AttributeError"
    offered          \* set of downloads offered: "pdf", "csv"

vars == <<uploaded_file, pc, df, before_quality, after_quality, improvement,
          ai_analysis, ai_report, narrative_calls, error, offered>>

---------------------------------------------------------------------------
(* Bounds of the three input families.                                     *)

\* rows of a file of the general family
MaxRows == 3
\* rows of a file of the keyed numeric family
MaxNumRows == 5

---------------------------------------------------------------------------
(* Text.                                                                   *)

Whitespace == {" ", "\t", "\n"}

RECURSIVE lstrip(_)
lstrip(name) ==
    IF name # <<>> /\ Head(name) \in Whitespace THEN lstrip(Tail(name)) ELSE name

RECURSIVE rstrip(_)
rstrip(name) ==
    IF name # <<>> /\ name[Len(name)] \in Whitespace
    THEN rstrip(SubSeq(name, 1, Len(name) - 1))
    ELSE name

\* strip that trims the left end only (str.lstrip for str.strip)
strip_left_only(name) == lstrip(name)

\* str.strip() of one column name
strip(name) == rstrip(lstrip(name))

\* the regular expression ^\s*$ on the field vocabulary
IsBlank(s) == s \in {"", " ", "  ", "\t"}

\* the decimal literals of the field vocabulary, with their values
NumberText == [s \in {"1", "2", "9", "30"} |->
                 CASE s = "1" -> 1 [] s = "2" -> 2 [] s = "9" -> 9 [] s = "30" -> 30]

ParsesAsNumber(s) == s \in DOMAIN NumberText

\* the order in which pandas sorts the text values of the vocabulary
Lexicographic == <<"1", "2", "30", "9", "Alice", "Bob", "Unknown",
                   "a", "b", "c", "d", "e", "f", "g", "h">>

TextRank(s) == CHOOSE i \in 1..Len(Lexicographic) : Lexicographic[i] = s

---------------------------------------------------------------------------
(* Cells.                                                                  *)

NaN == [kind |-> "nan", s |-> "", n |-> 0]
Str(t) == [kind |-> "str", s |-> t, n |-> 0]
Num(k) == [kind |-> "num", s |-> "", n |-> k]

isnull(c) == c.kind = "nan"

\* a number read from its decimal text (stored doubled)
NumOfText(s) == Num(2 * NumberText[s])

---------------------------------------------------------------------------
(* Tables.                                                                 *)

NoTable == [columns |-> <<>>, data |-> <<>>]

NCols(t) == Len(t.columns)
NRows(t) == Len(t.data)
ColIdx(t) == 1..NCols(t)
RowIdx(t) == 1..NRows(t)

\* the cells of column j, top to bottom
Column(t, j) == [i \in RowIdx(t) |-> t.data[i][j]]

\* the table with column j replaced by the cells col
WithColumn(t, j, col) ==
    [t EXCEPT !.data = [i \in RowIdx(t) |-> [t.data[i] EXCEPT ![j] = col[i]]]]

\* the table restricted to the columns for which keep[j] holds
RECURSIVE KeptPositions(_, _)
KeptPositions(keep, j) ==
    IF j > Len(keep) THEN <<>>
    ELSE (IF keep[j] THEN <<j>> ELSE <<>>) \o KeptPositions(keep, j + 1)

SelectColumns(t, keep) ==
    LET pos == KeptPositions(keep, 1) IN
    [columns |-> [k \in 1..Len(pos) |-> t.columns[pos[k]]],
     data    |-> [i \in RowIdx(t) |-> [k \in 1..Len(pos) |-> t.data[i][pos[k]]]]]


---------------------------------------------------------------------------
(* Loading: pd.read_csv.                                                   *)

NoFile == [present |-> FALSE, parseable |-> FALSE, header |-> <<>>, records |-> <<>>]

\* a line the C tokenizer skips (skip_blank_lines): nothing but whitespace
\* and no delimiter, which is a record of one whitespace-only field
BlankLine(rec) == Len(rec) = 1 /\ IsBlank(rec[1])

\* pd.read_csv raises: corrupt bytes, or no columns to parse (EmptyDataError)
LoadFails(file) == ~file.parseable \/ file.header = <<>>

\* the table pd.read_csv builds.  An empty field is missing; a column whose
\* remaining fields are all decimal literals is numeric; every other column
\* keeps its fields as text (a whitespace-only field included).
read_csv(file) ==
    LET recs  == SelectSeq(file.records, LAMBDA r : ~BlankLine(r))
        n     == Len(recs)
        IsNumericColumn(j) ==
            \A i \in 1..n : recs[i][j] = "" \/ ParsesAsNumber(recs[i][j])
        Cell(i, j) ==
            IF recs[i][j] = "" THEN NaN
            ELSE IF IsNumericColumn(j) THEN NumOfText(recs[i][j])
            ELSE Str(recs[i][j])
    IN  [columns |-> file.header,
         data    |-> [i \in 1..n |-> [j \in 1..Len(file.header) |-> Cell(i, j)]]]

---------------------------------------------------------------------------
(* Quality score: 100 * (1 - missing_cells / total_cells).                 *)

\* a score is the fraction num / den, or not a number
NotComputed == [set |-> FALSE, nan |-> FALSE, num |-> 0, den |-> 1]
NotANumber  == [set |-> TRUE,  nan |-> TRUE,  num |-> 0, den |-> 1]
Fraction(a, b) == [set |-> TRUE, nan |-> FALSE, num |-> a, den |-> b]

\* df.size
size(t) == NRows(t) * NCols(t)

\* df.isnull().sum().sum()
missing_cells(t) ==
    Cardinality({<<i, j>> \in RowIdx(t) \X ColIdx(t) : isnull(t.data[i][j])})

\* numpy division: 0 / 0 is nan (a RuntimeWarning, no exception)
quality(t) ==
    IF size(t) = 0 THEN NotANumber
    ELSE Fraction(100 * (size(t) - missing_cells(t)), size(t))

\* after_quality - before_quality
difference(a, b) ==
    IF a.nan \/ b.nan THEN NotANumber
    ELSE Fraction(a.num * b.den - b.num * a.den, a.den * b.den)

---------------------------------------------------------------------------
(* Stage 1: df.columns = df.columns.str.strip()                            *)

strip_columns(t) == [t EXCEPT !.columns = [j \in ColIdx(t) |-> strip(t.columns[j])]]

(* Stage 2: df.drop_duplicates(): keep="first", missing equals missing     *)

RECURSIVE FirstSeen(_, _, _)
FirstSeen(rows, i, seen) ==
    IF i > Len(rows) THEN <<>>
    ELSE IF rows[i] \in seen THEN FirstSeen(rows, i + 1, seen)
    ELSE <<rows[i]>> \o FirstSeen(rows, i + 1, seen \cup {rows[i]})

\* drop_duplicates that keeps the last of equal rows (keep="last")
RECURSIVE LastSeen(_, _)
LastSeen(rows, i) ==
    IF i > Len(rows) THEN <<>>
    ELSE IF \E k \in (i + 1)..Len(rows) : rows[k] = rows[i] THEN LastSeen(rows, i + 1)
    ELSE <<rows[i]>> \o LastSeen(rows, i + 1)

keep_last_rows(rows) == LastSeen(rows, 1)

drop_duplicate_rows(rows) == FirstSeen(rows, 1, {})

drop_duplicates(t) == [t EXCEPT !.data = drop_duplicate_rows(t.data)]

(* Stage 3: df.replace(r"^\s*$", np.nan, regex=True)                       *)

blank_to_nan(c) == IF c.kind = "str" /\ IsBlank(c.s) THEN NaN ELSE c

replace_blank(t) ==
    [t EXCEPT !.data = [i \in RowIdx(t) |-> [j \in ColIdx(t) |-> blank_to_nan(t.data[i][j])]]]

---------------------------------------------------------------------------
(* Stage 4: per column, pd.to_numeric, then fillna with median or mode.    *)

\* pd.to_numeric inside try/except-pass: all text cells parse, or no change
to_numeric(col) ==
    IF \A i \in DOMAIN col : col[i].kind = "str" => ParsesAsNumber(col[i].s)
    THEN [i \in DOMAIN col |-> IF col[i].kind = "str" THEN NumOfText(col[i].s) ELSE col[i]]
    ELSE col

\* dtype in ["int64", "float64"]
is_numeric_dtype(col) == \A i \in DOMAIN col : col[i].kind # "str"

RECURSIVE Insert(_, _)
Insert(x, s) ==
    IF s = <<>> THEN <<x>>
    ELSE IF x <= Head(s) THEN <<x>> \o s
    ELSE <<Head(s)>> \o Insert(x, Tail(s))

RECURSIVE SortedFrom(_, _)
SortedFrom(col, i) ==
    IF i > Len(col) THEN <<>>
    ELSE IF col[i].kind = "num" THEN Insert(col[i].n, SortedFrom(col, i + 1))
    ELSE SortedFrom(col, i + 1)

\* the non-missing numbers of a column, ascending
sorted_values(col) == SortedFrom(col, 1)

\* median that does not skip missing cells (skipna=False): one missing cell
\* makes it NaN
median_with_missing(col) ==
    LET s == sorted_values(col)
        n == Len(s)
    IN  IF n = 0 \/ \E i \in DOMAIN col : isnull(col[i]) THEN NaN
        ELSE Num((s[(n + 1) \div 2] + s[(n + 2) \div 2]) \div 2)

\* median that is 0 when the column has no value
median_or_zero(col) ==
    LET s == sorted_values(col)
        n == Len(s)
    IN  IF n = 0 THEN Num(0)
        ELSE Num((s[(n + 1) \div 2] + s[(n + 2) \div 2]) \div 2)

\* Series.median(): skips missing cells; NaN when there is none
median(col) ==
    LET s == sorted_values(col)
        n == Len(s)
    IN  IF n = 0 THEN NaN
        ELSE Num((s[(n + 1) \div 2] + s[(n + 2) \div 2]) \div 2)

\* Series.mode()[0], or "Unknown" when mode() is empty: the most frequent
\* non-missing value, the least in sorted order among equals
mode_or_unknown(col) ==
    LET present == {col[i] : i \in {k \in DOMAIN col : ~isnull(col[k])}}
        Count(v) == Cardinality({i \in DOMAIN col : col[i] = v})
        modes   == {v \in present : \A w \in present : Count(w) <= Count(v)}
    IN  IF present = {} THEN Str("Unknown")
        ELSE CHOOSE v \in modes : \A w \in modes : TextRank(v.s) <= TextRank(w.s)

\* Series.fillna(value, inplace=True)
fillna(col, value) == [i \in DOMAIN col |-> IF isnull(col[i]) THEN value ELSE col[i]]

\* the body of the loop for one column addressed by a unique name
coerce_and_impute(col) ==
    LET c == to_numeric(col)
    IN  IF is_numeric_dtype(c) THEN fillna(c, median(c))
        ELSE fillna(c, mode_or_unknown(c))

\* df[col] is one Series only if no other column carries the name
NameIsUnique(t, j) == \A k \in ColIdx(t) : t.columns[k] = t.columns[j] => k = j

\* the first column at which the loop raises (df[col] is a DataFrame, which
\* has no dtype), or 0 when the loop completes
FirstAmbiguous(t) ==
    IF \A j \in ColIdx(t) : NameIsUnique(t, j) THEN 0
    ELSE CHOOSE j \in ColIdx(t) :
            /\ ~NameIsUnique(t, j)
            /\ \A k \in 1..(j - 1) : NameIsUnique(t, k)

RECURSIVE ImputeUpTo(_, _, _)
ImputeUpTo(t, j, last) ==
    IF j > last THEN t
    ELSE ImputeUpTo(WithColumn(t, j, coerce_and_impute(Column(t, j))), j + 1, last)

\* the whole loop, when it completes
impute_all(t) == ImputeUpTo(t, 1, NCols(t))

---------------------------------------------------------------------------
(* Stage 5: replace values outside the 1.5 * IQR fences by the median.     *)

\* 4 * Series.quantile(q / 4), linear interpolation, of ascending s
Quantile4(s, q) ==
    LET p == q * (Len(s) - 1)
        k == p \div 4
        r == p % 4
    IN  IF r = 0 THEN 4 * s[k + 1]
        ELSE 4 * s[k + 1] + r * (s[k + 2] - s[k + 1])

\* 8 * lower and 8 * upper
Lower8(s) == 2 * Quantile4(s, 1) - 3 * (Quantile4(s, 3) - Quantile4(s, 1))
Upper8(s) == 2 * Quantile4(s, 3) + 3 * (Quantile4(s, 3) - Quantile4(s, 1))

\* outlier test that forgets the lower fence
is_outlier_above_only(c, s) ==
    /\ c.kind = "num"
    /\ s # <<>>
    /\ 8 * c.n > Upper8(s)

\* (df[col] < lower) | (df[col] > upper); a comparison with NaN is False
is_outlier(c, s) ==
    /\ c.kind = "num"
    /\ s # <<>>
    /\ (8 * c.n < Lower8(s) \/ 8 * c.n > Upper8(s))

\* np.where(outlier, df[col].median(), df[col])
clip_column(col) ==
    LET s == sorted_values(col)
        m == median(col)
    IN  [i \in DOMAIN col |-> IF is_outlier(col[i], s) THEN m ELSE col[i]]

RECURSIVE ClipUpTo(_, _)
ClipUpTo(t, j) ==
    IF j > NCols(t) THEN t
    ELSE IF is_numeric_dtype(Column(t, j))
         THEN ClipUpTo(WithColumn(t, j, clip_column(Column(t, j))), j + 1)
         ELSE ClipUpTo(t, j + 1)

clip_outliers(t) == ClipUpTo(t, 1)

---------------------------------------------------------------------------
(* Stage 6: convert_dtypes, dropna(axis=1, how="all"), drop all-"" columns *)

\* notna(column).any(): false for a column without rows
has_value(col) == \E i \in DOMAIN col : ~isnull(col[i])

\* (column != "").any(): a missing cell compares as missing and is skipped
has_non_empty(col) == \E i \in DOMAIN col : ~isnull(col[i]) /\ col[i] # Str("")

dropna_columns(t) == SelectColumns(t, [j \in ColIdx(t) |-> has_value(Column(t, j))])

drop_empty_string_columns(t) ==
    SelectColumns(t, [j \in ColIdx(t) |-> has_non_empty(Column(t, j))])

prune_columns(t) == drop_empty_string_columns(dropna_columns(t))

---------------------------------------------------------------------------
(* The uploads considered.                                                 *)

NameHeader == <<"N", "a", "m", "e">>
AgeHeader == <<"A", "g", "e">>
PaddedAgeHeader == <<" ", "A", "g", "e", " ">>
KeyHeader == <<"i", "d">>
ValueHeader == <<"x">>

\* a file whose bytes cannot be parsed
CorruptFile == [present |-> TRUE, parseable |-> FALSE, header |-> <<>>, records |-> <<>>]

\* a parseable file
CsvFile(header, records) ==
    [present |-> TRUE, parseable |-> TRUE, header |-> header, records |-> records]

\* the tables of n records of width fields over the vocabulary
Records(n, width, vocabulary) == [1..n -> [1..width -> vocabulary]]

\* general family: no, one or two columns (two of them with names that
\* differ only in whitespace), text, number, empty and blank fields
GeneralHeaders == {<<>>, <<NameHeader>>, <<NameHeader, PaddedAgeHeader>>,
                   <<AgeHeader, PaddedAgeHeader>>}
GeneralFields == {"", " ", "Alice", "30"}

IsGeneralFile(file) ==
    \E h \in GeneralHeaders : \E n \in 0..MaxRows :
        \E r \in Records(n, Len(h), GeneralFields) : file = CsvFile(h, r)

\* the worked example of the specification
ExampleFile ==
    CsvFile(<<NameHeader, PaddedAgeHeader>>,
            << <<"Alice", "30">>, <<"Alice", "30">>, <<"Bob", "">> >>)

\* example family: the files of the example's shape over its fields
ExampleFields == {"", "Alice", "Bob", "30"}

IsExampleFile(file) ==
    \E r \in Records(Len(ExampleFile.records), Len(ExampleFile.header), ExampleFields) :
        file = CsvFile(ExampleFile.header, r)

\* keyed numeric family: a key column that tells the rows apart and one
\* column of numbers, empty and blank fields
RowKeys == <<"a", "b", "c", "d", "e", "f", "g", "h">>
KeyedFields == {"", " ", "1", "2", "9"}

IsKeyedFile(file) ==
    \E n \in 0..MaxNumRows : \E v \in [1..n -> KeyedFields] :
        file = CsvFile(<<KeyHeader, ValueHeader>>, [i \in 1..n |-> <<RowKeys[i], v[i]>>])

---------------------------------------------------------------------------
(* The script run.                                                         *)

\* the state before the first line runs
Fresh ==
    /\ pc = "upload"
    /\ df = NoTable
    /\ before_quality = NotComputed
    /\ after_quality = NotComputed
    /\ improvement = NotComputed
    /\ ai_analysis = "none"
    /\ ai_report = "none"
    /\ narrative_calls = 0
    /\ error = "none"
    /\ offered = {}

Init ==
    /\ \/ IsGeneralFile(uploaded_file)
       \/ uploaded_file \in {CorruptFile, NoFile}
    /\ Fresh

InitExample ==
    /\ \/ IsExampleFile(uploaded_file)
       \/ uploaded_file \in {CorruptFile, NoFile}
    /\ Fresh

InitKeyed ==
    /\ \/ IsKeyedFile(uploaded_file)
       \/ uploaded_file \in {CorruptFile, NoFile}
    /\ Fresh

\* lines 194-195: no file uploaded, the run ends with a hint
NoUpload ==
    /\ pc = "upload"
    /\ ~uploaded_file.present
    /\ pc' = "idle"
    /\ UNCHANGED <<uploaded_file, df, before_quality, after_quality, improvement,
                   ai_analysis, ai_report, narrative_calls, error, offered>>

\* lines 29-34, 39-40: the file parses
Load ==
    /\ pc = "upload"
    /\ uploaded_file.present
    /\ ~LoadFails(uploaded_file)
    /\ df' = read_csv(uploaded_file)
    /\ pc' = "loaded"
    /\ UNCHANGED <<uploaded_file, before_quality, after_quality, improvement,
                   ai_analysis, ai_report, narrative_calls, error, offered>>

\* the except branch without st.stop(): the error is shown and the run goes on
LoadErrorWithoutStop ==
    /\ pc = "upload"
    /\ uploaded_file.present
    /\ LoadFails(uploaded_file)
    /\ error' = "LoadError"
    /\ pc' = "loaded"
    /\ UNCHANGED <<uploaded_file, df, before_quality, after_quality, improvement,
                   ai_analysis, ai_report, narrative_calls, offered>>

\* lines 35-37: the parser raises; st.error, st.stop
LoadError ==
    /\ pc = "upload"
    /\ uploaded_file.present
    /\ LoadFails(uploaded_file)
    /\ error' = "LoadError"
    /\ pc' = "stopped"
    /\ UNCHANGED <<uploaded_file, df, before_quality, after_quality, improvement,
                   ai_analysis, ai_report, narrative_calls, offered>>

\* lines 45-48
ScoreBefore ==
    /\ pc = "loaded"
    /\ before_quality' = quality(df)
    /\ pc' = "scored_before"
    /\ UNCHANGED <<uploaded_file, df, after_quality, improvement,
                   ai_analysis, ai_report, narrative_calls, error, offered>>

\* lines 53-73: the pre-clean narrative call returns
Analyze ==
    /\ pc = "scored_before"
    /\ narrative_calls' = narrative_calls + 1
    /\ ai_analysis' = "text"
    /\ pc' = "analyzed"
    /\ UNCHANGED <<uploaded_file, df, before_quality, after_quality, improvement,
                   ai_report, error, offered>>

\* line 70: the pre-clean narrative call raises; nothing catches it
AnalyzeRaises ==
    /\ pc = "scored_before"
    /\ narrative_calls' = narrative_calls + 1
    /\ error' = "NarrativeUnavailable"
    /\ pc' = "crashed"
    /\ UNCHANGED <<uploaded_file, df, before_quality, after_quality, improvement,
                   ai_analysis, ai_report, offered>>

\* line 81
StripColumns ==
    /\ pc = "analyzed"
    /\ df' = strip_columns(df)
    /\ pc' = "stripped"
    /\ UNCHANGED <<uploaded_file, before_quality, after_quality, improvement,
                   ai_analysis, ai_report, narrative_calls, error, offered>>

\* line 82
DropDuplicates ==
    /\ pc = "stripped"
    /\ df' = drop_duplicates(df)
    /\ pc' = "deduplicated"
    /\ UNCHANGED <<uploaded_file, before_quality, after_quality, improvement,
                   ai_analysis, ai_report, narrative_calls, error, offered>>

\* line 83
ReplaceBlank ==
    /\ pc = "deduplicated"
    /\ df' = replace_blank(df)
    /\ pc' = "normalized"
    /\ UNCHANGED <<uploaded_file, before_quality, after_quality, improvement,
                   ai_analysis, ai_report, narrative_calls, error, offered>>

\* lines 85-93: the loop over the columns; it raises AttributeError at the
\* first column whose name another column carries too
CoerceAndImpute ==
    /\ pc = "normalized"
    /\ IF FirstAmbiguous(df) = 0
       THEN /\ df' = impute_all(df)
            /\ pc' = "imputed"
            /\ error' = error
       ELSE /\ df' = ImputeUpTo(df, 1, FirstAmbiguous(df) - 1)
            /\ pc' = "crashed"
            /\ error' = "AttributeError"
    /\ UNCHANGED <<uploaded_file, before_quality, after_quality, improvement,
                   ai_analysis, ai_report, narrative_calls, offered>>

\* lines 95-100
ClipOutliers ==
    /\ pc = "imputed"
    /\ df' = clip_outliers(df)
    /\ pc' = "clipped"
    /\ UNCHANGED <<uploaded_file, before_quality, after_quality, improvement,
                   ai_analysis, ai_report, narrative_calls, error, offered>>

\* lines 102-108
PruneColumns ==
    /\ pc = "clipped"
    /\ df' = prune_columns(df)
    /\ pc' = "cleaned"
    /\ UNCHANGED <<uploaded_file, before_quality, after_quality, improvement,
                   ai_analysis, ai_report, narrative_calls, error, offered>>

\* what line 116 can do.  With cells it divides; with no cell it divides 0
\* by 0: numpy gives nan, and plain Python numbers raise ZeroDivisionError,
\* which is what the sum over a table with rows and no column may hand over.
DivisionOutcomes(t) ==
    IF size(t) = 0 /\ NCols(t) = 0 /\ NRows(t) > 0 THEN {"value", "raise"}
    ELSE {"value"}

\* lines 114-123
ScoreAfter ==
    /\ pc = "cleaned"
    /\ \E outcome \in DivisionOutcomes(df) :
         IF outcome = "value"
         THEN /\ after_quality' = quality(df)
              /\ improvement' = difference(quality(df), before_quality)
              /\ pc' = "scored_after"
              /\ error' = error
         ELSE /\ pc' = "crashed"
              /\ error' = "ZeroDivisionError"
              /\ UNCHANGED <<after_quality, improvement>>
    /\ UNCHANGED <<uploaded_file, df, before_quality,
                   ai_analysis, ai_report, narrative_calls, offered>>

\* lines 130-142: the post-clean narrative call returns
Summarize ==
    /\ pc = "scored_after"
    /\ narrative_calls' = narrative_calls + 1
    /\ ai_report' = "text"
    /\ pc' = "summarized"
    /\ UNCHANGED <<uploaded_file, df, before_quality, after_quality, improvement,
                   ai_analysis, error, offered>>

\* line 139: the post-clean narrative call raises; nothing catches it
SummarizeRaises ==
    /\ pc = "scored_after"
    /\ narrative_calls' = narrative_calls + 1
    /\ error' = "NarrativeUnavailable"
    /\ pc' = "crashed"
    /\ UNCHANGED <<uploaded_file, df, before_quality, after_quality, improvement,
                   ai_analysis, ai_report, offered>>

\* lines 147-181
OfferPdf ==
    /\ pc = "summarized"
    /\ offered' = offered \cup {"pdf"}
    /\ pc' = "pdf_offered"
    /\ UNCHANGED <<uploaded_file, df, before_quality, after_quality, improvement,
                   ai_analysis, ai_report, narrative_calls, error>>

\* lines 186-192
OfferCsv ==
    /\ pc = "pdf_offered"
    /\ offered' = offered \cup {"csv"}
    /\ pc' = "done"
    /\ UNCHANGED <<uploaded_file, df, before_quality, after_quality, improvement,
                   ai_analysis, ai_report, narrative_calls, error>>

Next ==
    \/ NoUpload
    \/ Load
    \/ LoadError
    \/ ScoreBefore
    \/ Analyze
    \/ AnalyzeRaises
    \/ StripColumns
    \/ DropDuplicates
    \/ ReplaceBlank
    \/ CoerceAndImpute
    \/ ClipOutliers
    \/ PruneColumns
    \/ ScoreAfter
    \/ Summarize
    \/ SummarizeRaises
    \/ OfferPdf
    \/ OfferCsv

\* the run over the general family
Spec == Init /\ [][Next]_vars
\* the run over the example family
SpecExample == InitExample /\ [][Next]_vars
\* the run over the keyed numeric family
SpecKeyed == InitKeyed /\ [][Next]_vars

\* the run has ended
Ended == pc \in {"idle", "stopped", "crashed", "done"}

---------------------------------------------------------------------------
(* The table at each point of the run, as a function of the upload.        *)

Loaded(file) == read_csv(file)
Stripped(file) == strip_columns(Loaded(file))
Deduplicated(file) == drop_duplicates(Stripped(file))
Normalized(file) == replace_blank(Deduplicated(file))
Imputed(file) == impute_all(Normalized(file))

\* a score that is the percentage p / q
IsPercent(score, p, q) == score.set /\ ~score.nan /\ score.num * q = p * score.den

\* a score that is a number between 0 and 100
InPercentRange(score) ==
    score.set /\ ~score.nan /\ score.den > 0
              /\ 0 <= score.num /\ score.num <= 100 * score.den

---------------------------------------------------------------------------
(* C1.  As claimed: when a narrative call fails, the run still cleans the  *)
(* table and still reaches the offer of the cleaned CSV.  The script has   *)
(* no handler around either call, so the run ends at the failing call.     *)
C1_NarrativeFailureKeepsCsv ==
    (Ended /\ error = "NarrativeUnavailable") => (pc = "done" /\ "csv" \in offered)

(* C2.  As claimed: both score computations complete without a division    *)
(* by zero and give a percentage in [0, 100], which is 100 for a table     *)
(* without cells.  The script divides by the cell count unguarded.         *)
C2_ScoreDefinedForEveryTable ==
    /\ error # "ZeroDivisionError"
    /\ before_quality.set =>
         /\ InPercentRange(before_quality)
         /\ size(Loaded(uploaded_file)) = 0 => IsPercent(before_quality, 100, 1)
    /\ after_quality.set =>
         /\ InPercentRange(after_quality)
         /\ size(df) = 0 => IsPercent(after_quality, 100, 1)

(* C3.  As claimed: after stage 4 no column contains a missing marker,     *)
(* a column whose cells are all missing included.                          *)
C3_NoMissingAfterImputation ==
    pc = "imputed" => missing_cells(df) = 0

(* C3, amended.  After stage 4, every column that had a value after stage  *)
(* 3 contains no missing marker, and a column that had none is left as it  *)
(* was, all missing (its median is not a number).                          *)
C3_ImputedUnlessAllMissing ==
    pc = "imputed" =>
        LET pre == Normalized(uploaded_file) IN
        /\ NCols(df) = NCols(pre) /\ NRows(df) = NRows(pre)
        /\ \A j \in ColIdx(df) :
              IF has_value(Column(pre, j))
              THEN \A i \in RowIdx(df) : ~isnull(df.data[i][j])
              ELSE Column(df, j) = Column(pre, j)

\* C3 witness: stage 4 filled a missing cell of one column and left
\* another column, all missing, as it was
C3_Witness ==
    /\ pc = "imputed"
    /\ NRows(df) > 1
    /\ LET pre == Normalized(uploaded_file) IN
       /\ \E j \in ColIdx(df) :
             /\ \E i \in RowIdx(df) : isnull(pre.data[i][j]) /\ ~isnull(df.data[i][j])
       /\ \E j \in ColIdx(df) : \A i \in RowIdx(df) : isnull(df.data[i][j])

(* C4.  After stage 5, in every numeric column with values, every value    *)
(* lies within [Q1 - 1.5 IQR, Q3 + 1.5 IQR] of the column as it was after  *)
(* stage 4; a value strictly outside was replaced by that column's median  *)
(* and a value inside is unchanged; with IQR = 0 every value ends up equal *)
(* to the median.                                                          *)
C4_ClippedWithinFences ==
    pc = "clipped" =>
        LET pre == Imputed(uploaded_file) IN
        /\ NCols(df) = NCols(pre) /\ NRows(df) = NRows(pre)
        /\ \A j \in ColIdx(pre) :
              LET col == Column(pre, j)
                  s   == sorted_values(col)
              IN  (is_numeric_dtype(col) /\ s # <<>>) =>
                    LET q1 == Quantile4(s, 1)
                        q3 == Quantile4(s, 3)
                        lo == 2 * q1 - 3 * (q3 - q1)
                        hi == 2 * q3 + 3 * (q3 - q1)
                        m  == median(col)
                    IN  \A i \in RowIdx(pre) :
                          LET old == col[i]
                              new == df.data[i][j]
                          IN  old.kind = "num" =>
                                /\ new.kind = "num"
                                /\ lo <= 8 * new.n /\ 8 * new.n <= hi
                                /\ (8 * old.n < lo \/ 8 * old.n > hi) => new = m
                                /\ (lo <= 8 * old.n /\ 8 * old.n <= hi) => new = old
                                /\ q1 = q3 => new = m

\* C4 witness: a numeric column without spread (IQR = 0) in which stage 5
\* replaced a value by the median
C4_Witness ==
    /\ pc = "clipped"
    /\ LET pre == Imputed(uploaded_file) IN
       \E j \in ColIdx(pre) :
          LET col == Column(pre, j)
              s   == sorted_values(col)
          IN  /\ is_numeric_dtype(col)
              /\ s # <<>>
              /\ Quantile4(s, 1) = Quantile4(s, 3)
              /\ \E i \in RowIdx(pre) : df.data[i][j] # col[i] /\ df.data[i][j] = median(col)

\* the outcome of the example: the cleaned table and the two scores, the
\* score before cleaning being p / q percent
ExampleOutcome(p, q) ==
    /\ df.columns = <<NameHeader, AgeHeader>>
    /\ NRows(df) = 2 /\ NCols(df) = 2
    /\ df.data = << <<Str("Alice"), NumOfText("30")>>, <<Str("Bob"), NumOfText("30")>> >>
    /\ IsPercent(before_quality, p, q)
    /\ IsPercent(after_quality, 100, 1)

(* C5.  As claimed: the example upload ends with header Name, Age, 2 rows, *)
(* 2 columns, the blank Age filled by 30, a score of 75% before cleaning   *)
(* and of 100% after.                                                      *)
C5_ExampleAsClaimed ==
    (uploaded_file = ExampleFile /\ pc = "done") => ExampleOutcome(75, 1)

(* C5, amended.  The example upload ends with header Name, Age, 2 rows, 2  *)
(* columns, the blank Age filled by 30, a score of 100 * (1 - 1/6) =       *)
(* 83.33% before cleaning (one missing cell of six) and of 100% after.     *)
C5_ExampleOutcome ==
    (uploaded_file = ExampleFile /\ pc = "done") => ExampleOutcome(500, 6)

\* C5 witness: the run over the example upload has completed
C5_Witness ==
    /\ uploaded_file = ExampleFile
    /\ pc = "done"
    /\ offered = {"pdf", "csv"}

(* C6.  When loading fails the run stops at once with the load error: no   *)
(* score is computed, no narrative call is made, no cleaning stage runs    *)
(* and no download is offered.                                             *)
C6_LoadErrorStops ==
    /\ (pc # "upload" /\ uploaded_file.present /\ LoadFails(uploaded_file)) =>
          error = "LoadError"
    /\ error = "LoadError" =>
          /\ pc = "stopped"
          /\ df = NoTable
          /\ ~before_quality.set /\ ~after_quality.set /\ ~improvement.set
          /\ narrative_calls = 0
          /\ ai_analysis = "none" /\ ai_report = "none"
          /\ offered = {}

\* C6 witness: a corrupt upload has stopped the run
C6_Witness ==
    /\ uploaded_file = CorruptFile
    /\ pc = "stopped"
    /\ error = "LoadError"

\* the positions of the rows that equal no earlier row
FirstOccurrences(rows) ==
    {i \in 1..Len(rows) : \A k \in 1..(i - 1) : rows[k] # rows[i]}

(* C7.  Stage 2 returns exactly the rows that equal no earlier row         *)
(* (missing equals missing), in their original order, and applying it to   *)
(* its own result changes nothing.                                         *)
C7_FirstOccurrencesInOrder ==
    pc = "deduplicated" =>
        LET rows == Stripped(uploaded_file).data
            keep == FirstOccurrences(rows)
        IN  /\ df.columns = Stripped(uploaded_file).columns
            /\ Len(df.data) = Cardinality(keep)
            /\ \A i \in keep : df.data[Cardinality({k \in keep : k <= i})] = rows[i]
            /\ drop_duplicates(df) = df

\* C7 witness: the third row repeated the first, which holds a missing
\* cell, with another row between them, and stage 2 removed it
C7_Witness ==
    /\ pc = "deduplicated"
    /\ LET rows == Stripped(uploaded_file).data IN
       /\ Len(rows) = 3
       /\ rows[1] = rows[3] /\ rows[1] # rows[2]
       /\ \E j \in DOMAIN rows[1] : isnull(rows[1][j])
       /\ df.data = <<rows[1], rows[2]>>
       /\ FirstAmbiguous(df) = 0

(* C8.  As claimed: after header normalization the column names are        *)
(* pairwise distinct whenever the raw names are, so that every later       *)
(* per-column stage addresses one column by name.  Two raw names that      *)
(* differ only in whitespace become one name, and the loop of stage 4      *)
(* raises at it.                                                           *)
C8_StrippedNamesDistinct ==
    /\ (pc \notin {"upload", "idle", "stopped", "loaded", "scored_before", "analyzed"}
          /\ \A j, k \in ColIdx(Loaded(uploaded_file)) :
                Loaded(uploaded_file).columns[j] = Loaded(uploaded_file).columns[k] => j = k)
       => \A j, k \in ColIdx(df) : df.columns[j] = df.columns[k] => j = k
    /\ error # "AttributeError"

\* a column of the loaded table without a value: every cell is missing or
\* blank
IsEmptyColumn(t, j) ==
    \A i \in RowIdx(t) : isnull(t.data[i][j]) \/ (t.data[i][j].kind = "str" /\ IsBlank(t.data[i][j].s))

EmptyColumns(t) == {j \in ColIdx(t) : IsEmptyColumn(t, j)}

(* C9.  The cleaned table has exactly the columns of the input that are    *)
(* not all missing or blank, in their order; with one such column the      *)
(* cleaned table has one column less than the input.                       *)
C9_EmptyColumnsPruned ==
    pc = "cleaned" =>
        LET t == Loaded(uploaded_file) IN
        /\ df.columns =
             SelectColumns(Stripped(uploaded_file),
                           [j \in ColIdx(t) |-> j \notin EmptyColumns(t)]).columns
        /\ Cardinality(EmptyColumns(t)) = 1 => NCols(df) = NCols(t) - 1

\* C9 witness: of two columns, one held only empty and blank fields and is
\* gone, the other is kept
C9_Witness ==
    /\ pc = "cleaned"
    /\ LET t == Loaded(uploaded_file) IN
       /\ NCols(t) = 2 /\ NRows(t) > 1
       /\ Cardinality(EmptyColumns(t)) = 1
       /\ \E j \in EmptyColumns(t) :
             /\ \E i \in RowIdx(t) : t.data[i][j] = Str(" ")
             /\ \E i \in RowIdx(t) : isnull(t.data[i][j])
       /\ NCols(df) = 1

(* C10.  As claimed: the table the complete pipeline produces contains no  *)
(* two identical rows.  Rows are compared before blanks become missing and *)
(* missing cells are filled, and both can make two rows equal.             *)
C10_NoDuplicateRowsAfterCleaning ==
    pc \in {"cleaned", "scored_after", "summarized", "pdf_offered", "done"} =>
        \A i, k \in RowIdx(df) : df.data[i] = df.data[k] => i = k

=============================================================================
